---- MODULE Spec2Model ----
(***************************************************************************)
(* A model of slack-to-linear-button-click.py: the Flask handler           *)
(* handle_slack_interaction, create_linear_ticket with its single          *)
(* assigneeId retry, and send_slack_notification.                          *)
(*                                                                         *)
(* JSON values are tagged records; Python's dict/list/str operations are   *)
(* operators that return either a value or an exception value, so that     *)
(* every shape violation takes the path it takes in the interpreter.       *)
(***************************************************************************)
EXTENDS Integers, Sequences, FiniteSets, TLC

VARIABLES pc, form, incident, variables, issue, trace, response

vars == <<pc, form, incident, variables, issue, trace, response>>

-----------------------------------------------------------------------------
(* Bounds of the model.                                                    *)

\* Largest number of blocks in the state-values map of a payload.
MaxBlocks == 2

\* Largest number of entries in an incident's comments / work_notes list.
MaxComments == 1

\* The requests that may be in progress at once.
Requests == {1, 2}

-----------------------------------------------------------------------------
(* JSON values as json.loads yields them.                                  *)

Null == [k |-> "null"]

Str(s) == [k |-> "str", s |-> s]

Bool(b) == [k |-> "bool", b |-> b]

List(items) == [k |-> "list", items |-> items]

\* A dict: m is a function from its keys.
Dict(m) == [k |-> "dict", m |-> m]

EmptyDict == Dict(<<>>)

\* A string holding JSON text; parse is what json.loads makes of it.
JsonText(v) == [k |-> "jsontext", parse |-> v]

\* The parse of a text that is no JSON document.
Invalid == [k |-> "invalid"]

\* A raised exception, with the text str(e) gives.
Exc(type, msg) == [k |-> "exc", type |-> type, msg |-> msg]

IsExc(v) == v.k = "exc"

\* No value yet (a local variable not assigned so far).
Nothing == [k |-> "nothing"]

-----------------------------------------------------------------------------
(* Python's operations on these values.                                    *)

\* bool(v)
Truthy(v) ==
    CASE v.k = "null" -> FALSE
      [] v.k = "str" -> v.s # ""
      [] v.k = "bool" -> v.b
      [] v.k = "list" -> Len(v.items) > 0
      [] v.k = "dict" -> DOMAIN v.m # {}
      [] OTHER -> TRUE

\* json.loads(v)
JsonLoads(v) ==
    CASE v.k = "exc" -> v
      [] v.k = "jsontext" ->
            IF v.parse = Invalid
            THEN Exc("JSONDecodeError", "Expecting value: line 1 column 1 (char 0)")
            ELSE v.parse
      [] v.k = "str" -> Exc("JSONDecodeError", "Expecting value: line 1 column 1 (char 0)")
      [] OTHER -> Exc("TypeError", "the JSON object must be str, bytes or bytearray")

\* v.get(key, default)
PyGet(v, key, default) ==
    CASE v.k = "exc" -> v
      [] v.k = "dict" -> IF key \in DOMAIN v.m THEN v.m[key] ELSE default
      [] OTHER -> Exc("AttributeError", "object has no attribute 'get'")

\* v[key] for a string key
PyItem(v, key) ==
    CASE v.k = "exc" -> v
      [] v.k = "dict" -> IF key \in DOMAIN v.m THEN v.m[key]
                         ELSE Exc("KeyError", "'" \o key \o "'")
      [] v.k \in {"list", "str", "jsontext"} -> Exc("TypeError", "indices must be integers")
      [] OTHER -> Exc("TypeError", "object is not subscriptable")

\* v[0]
PyFirst(v) ==
    CASE v.k = "exc" -> v
      [] v.k = "list" ->
            IF Len(v.items) > 0 THEN v.items[1]
            ELSE Exc("IndexError", "list index out of range")
      [] v.k = "dict" -> Exc("KeyError", "0")
      [] v.k = "str" ->
            IF v.s # "" THEN Str(SubSeq(v.s, 1, 1))
            ELSE Exc("IndexError", "string index out of range")
      [] v.k = "jsontext" -> Str("{")
      [] OTHER -> Exc("TypeError", "object is not subscriptable")

\* sub in s, for two strings
Contains(s, sub) ==
    \E i \in 1..(Len(s) - Len(sub) + 1) : SubSeq(s, i, i + Len(sub) - 1) = sub

\* key in v
PyIn(key, v) ==
    CASE v.k = "exc" -> v
      [] v.k = "dict" -> Bool(key \in DOMAIN v.m)
      [] v.k = "list" -> Bool(\E i \in 1..Len(v.items) : v.items[i] = Str(key))
      [] v.k = "str" -> Bool(Contains(v.s, key))
      [] v.k = "jsontext" -> Bool(FALSE)
      [] OTHER -> Exc("TypeError", "argument is not iterable")

\* str(v), as an f-string interpolates it
PyStr(v) ==
    CASE v.k = "str" -> v.s
      [] v.k = "null" -> "None"
      [] v.k = "bool" -> IF v.b THEN "True" ELSE "False"
      [] OTHER -> "<object>"

\* d.items() in document order; the keys of an iterated dict are "1", "2", ...
PyItems(d) ==
    [i \in 1..Cardinality(DOMAIN d.m) |-> <<ToString(i), d.m[ToString(i)]>>]

\* The dict whose items are the given values, keyed "1", "2", ... in order.
DictOfSeq(s) ==
    Dict([key \in {ToString(i) : i \in 1..Len(s)} |->
            s[CHOOSE i \in 1..Len(s) : ToString(i) = key]])

-----------------------------------------------------------------------------
(* Helpers for building and updating dicts.                                *)

\* Marks a key left out of a dict under construction.
Absent == [k |-> "absent"]

\* The dict with the given <<key, value>> pairs, leaving out the Absent ones.
MkDict(pairs) ==
    Dict([key \in {pairs[i][1] : i \in {j \in DOMAIN pairs : pairs[j][2] # Absent}} |->
            pairs[CHOOSE i \in DOMAIN pairs : pairs[i][1] = key][2]])

\* d[key] = val
PySetItem(d, key, val) ==
    CASE d.k = "exc" -> d
      [] d.k = "dict" -> Dict((key :> val) @@ d.m)
      [] d.k = "list" -> Exc("TypeError", "list indices must be integers or slices, not str")
      [] OTHER -> Exc("TypeError", "object does not support item assignment")

\* d.pop(key, None)
PyPop(d, key) == [x \in DOMAIN d \ {key} |-> d[x]]

\* The first exception among the values, in evaluation order, or Nothing.
FirstExc(vs) ==
    IF \E i \in DOMAIN vs : IsExc(vs[i])
    THEN vs[CHOOSE i \in DOMAIN vs : IsExc(vs[i]) /\ \A j \in 1..(i - 1) : ~IsExc(vs[j])]
    ELSE Nothing

\* s.strip()
RECURSIVE LStrip(_)
LStrip(s) ==
    IF s # "" /\ SubSeq(s, 1, 1) \in {" ", "\n"}
    THEN LStrip(SubSeq(s, 2, Len(s)))
    ELSE s

RECURSIVE RStrip(_)
RStrip(s) ==
    IF s # "" /\ SubSeq(s, Len(s), Len(s)) \in {" ", "\n"}
    THEN RStrip(SubSeq(s, 1, Len(s) - 1))
    ELSE s

Strip(s) == RStrip(LStrip(s))

-----------------------------------------------------------------------------
(* Configuration read from the environment at import.                      *)

LINEAR_TEAM_ID == "TEAM-1"

SERVICENOW_URL == "https://snow.example/"

-----------------------------------------------------------------------------
(* Responses of the Flask handler.                                         *)

\* (jsonify(body), status)
Resp(status, body) == [k |-> "resp", status |-> status, body |-> body]

\* An exception that left handle_slack_interaction uncaught.
Unhandled(e) == [k |-> "unhandled", exc |-> e]

\* The success acknowledgement of create_linear_ticket.
SuccessAck ==
    Resp(200, [text |-> "Linear ticket created successfully",
               blocks |-> <<"Linear ticket created successfully">>])

\* The failure acknowledgement of create_linear_ticket's except clause.
FailureAck(e) ==
    Resp(200, [text |-> "Error Creating Linear Ticket",
               blocks |-> <<"*Failed to create Linear ticket*\nError: " \o e.msg>>])

\* The answer when the response reports no success.
FailedResp == Resp(500, [error |-> "Failed to create Linear ticket"])

\* The mutant of the except clauses: the catch-all names the exceptions it
\* expects, and the others leave the handler.
OuterExceptNarrow(e) ==
    IF e.type = "JSONDecodeError"
    THEN Resp(400, [error |-> "Invalid JSON payload"])
    ELSE IF e.type \in {"KeyError", "IndexError"}
    THEN Resp(500, [error |-> "Internal server error"])
    ELSE Unhandled(e)

\* except json.JSONDecodeError: 400; except Exception: 500
OuterExcept(e) ==
    IF e.type = "JSONDecodeError"
    THEN Resp(400, [error |-> "Invalid JSON payload"])
    ELSE Resp(500, [error |-> "Internal server error"])

-----------------------------------------------------------------------------
(* format_comments_for_linear                                              *)

\* One entry of the loop body: the text added, or the exception raised.
FormatEntry(c) ==
    LET by == PyItem(c, "created_by")
        on == PyItem(c, "created_on")
        val == PyItem(c, "value")
        e == FirstExc(<<by, on, val>>)
    IN  IF e # Nothing THEN e
        ELSE Str("\n**" \o PyStr(by) \o " - " \o PyStr(on) \o "**\n" \o PyStr(val) \o "\n")

\* for entry in entries: formatted_text += ...
RECURSIVE FormatEntries(_, _)
FormatEntries(text, entries) ==
    IF IsExc(text) THEN text
    ELSE IF entries.k # "list" THEN Exc("TypeError", "string indices must be integers")
    ELSE IF entries.items = <<>> THEN text
    ELSE LET one == FormatEntry(Head(entries.items))
         IN  IF IsExc(one) THEN one
             ELSE FormatEntries(Str(text.s \o one.s), List(Tail(entries.items)))

format_comments_for_linear(comments, work_notes) ==
    LET t0 == Str("\n\n### ServiceNow Comments\n")
        t1 == IF IsExc(comments) THEN comments
              ELSE IF Truthy(comments)
              THEN FormatEntries(Str(t0.s \o "\n#### Additional Comments\n"), comments)
              ELSE t0
        t2 == IF IsExc(t1) THEN t1
              ELSE IF IsExc(work_notes) THEN work_notes
              ELSE IF Truthy(work_notes)
              THEN FormatEntries(Str(t1.s \o "\n#### Work Notes\n"), work_notes)
              ELSE t1
    IN  t2

-----------------------------------------------------------------------------
(* handle_slack_interaction, up to the call of create_linear_ticket         *)

\* What the dispatcher hands on: the incident create_linear_ticket is called with.
Call(inc) == [k |-> "call", incident |-> inc]

\* The assign_user branch: the echo of the selected option's display text.
AssignUser(action) ==
    LET selected_user ==
            PyGet(PyGet(PyGet(action, "selected_option", EmptyDict), "text", EmptyDict),
                  "text", Str("Unknown"))
    IN  IF IsExc(selected_user) THEN selected_user
        ELSE Resp(200, [text |-> "User selected: " \o PyStr(selected_user)])

\* The body of the loop over state_values.items() for one block.
InjectBlock(incident_data, block_data) ==
    LET has == PyIn("assign_user", block_data)
        selected_option == PyGet(PyItem(block_data, "assign_user"), "selected_option", Null)
        text == PyItem(PyItem(selected_option, "text"), "text")
        set1 == PySetItem(incident_data, "assigned_to", text)
        value == PyItem(selected_option, "value")
        set2 == PySetItem(set1, "assignee_id", value)
    IN  IF IsExc(has) THEN has
        ELSE IF ~has.b THEN incident_data
        ELSE IF IsExc(selected_option) THEN selected_option
        ELSE IF ~Truthy(selected_option) THEN incident_data
        ELSE IF IsExc(text) THEN text
        ELSE IF IsExc(set1) THEN set1
        ELSE IF IsExc(value) THEN value
        ELSE set2

\* The mutant of the loop: the blocks are visited from the last to the first,
\* so that the first matching block in document order is the one that stays.
RECURSIVE InjectAssigneeFirstWins(_, _)
InjectAssigneeFirstWins(incident_data, items) ==
    IF IsExc(incident_data) \/ items = <<>> THEN incident_data
    ELSE InjectAssigneeFirstWins(InjectBlock(incident_data, items[Len(items)][2]),
                                 SubSeq(items, 1, Len(items) - 1))

\* for block_id, block_data in state_values.items(): ...
RECURSIVE InjectAssignee(_, _)
InjectAssignee(incident_data, items) ==
    IF IsExc(incident_data) \/ items = <<>> THEN incident_data
    ELSE InjectAssignee(InjectBlock(incident_data, Head(items)[2]), Tail(items))

\* The move_to_linear branch.
MoveToLinear(payload, action) ==
    LET incident_data == JsonLoads(PyGet(action, "value", JsonText(EmptyDict)))
        state_values == PyGet(PyGet(payload, "state", EmptyDict), "values", EmptyDict)
    IN  IF IsExc(incident_data) THEN incident_data
        ELSE IF IsExc(state_values) THEN state_values
        ELSE IF state_values.k # "dict"
        THEN Exc("AttributeError", "object has no attribute 'items'")
        ELSE LET injected == InjectAssignee(incident_data, PyItems(state_values))
             IN  IF IsExc(injected) THEN injected ELSE Call(injected)

\* The try block of handle_slack_interaction: a response, an exception, or a Call.
Dispatch(f) ==
    IF ~Truthy(f) THEN Resp(400, [error |-> "No payload found"])
    ELSE LET payload == JsonLoads(f)
             type == PyGet(payload, "type", Null)
             action == PyFirst(PyGet(payload, "actions", List(<<EmptyDict>>)))
             action_id == PyGet(action, "action_id", Null)
         IN  IF IsExc(type) THEN type
             ELSE IF type # Str("block_actions")
             THEN Resp(400, [error |-> "Unsupported payload type"])
             ELSE IF IsExc(action_id) THEN action_id
             ELSE IF action_id = Str("assign_user") THEN AssignUser(action)
             ELSE IF action_id = Str("move_to_linear") THEN MoveToLinear(payload, action)
             ELSE Resp(400, [error |-> "Unhandled action type"])

-----------------------------------------------------------------------------
(* create_linear_ticket, up to its try block                                *)

\* The f-string of the description, stripped.
Description(incident_, comments_section) ==
    Strip("\n### ServiceNow Incident Details\n"
        \o "- **Incident Number:** " \o PyStr(PyGet(incident_, "number", Str("Unknown"))) \o "\n"
        \o "- **Short Description:** "
        \o PyStr(PyGet(incident_, "short_description", Str("N/A"))) \o "\n"
        \o "- **State:** " \o PyStr(PyGet(incident_, "state", Str("Unknown"))) \o "\n"
        \o "- **Priority:** " \o PyStr(PyGet(incident_, "priority", Str("Unknown"))) \o "\n"
        \o "- **Assignment Group:** "
        \o PyStr(PyGet(incident_, "assignment_group", Str("N/A"))) \o "\n"
        \o "- **Assigned To:** "
        \o PyStr(PyGet(incident_, "assigned_to", Str("Unassigned"))) \o "\n"
        \o "\n### Description\n"
        \o PyStr(PyGet(incident_, "description", Str("No description provided"))) \o "\n\n"
        \o comments_section \o "\n"
        \o "\n### ServiceNow Link\n"
        \o "[View in ServiceNow](" \o SERVICENOW_URL \o "nav_to.do?uri=incident.do?sys_id="
        \o PyStr(PyGet(incident_, "sys_id", Str(""))) \o ")\n"
        \o "\n---\n"
        \o "_This ticket was automatically created from ServiceNow Incident Management System_\n"
        \o "ServiceNow Reference: " \o PyStr(PyGet(incident_, "sys_id", Str(""))) \o "\n    ")

\* The variables dict as built, ready for the first call.
Built(v) == [k |-> "built", v |-> v]

\* The mutant of the variables: the assignee is left out of the request.
BuildVariablesNoAssignee(incident_) ==
    LET comments_section ==
            format_comments_for_linear(PyGet(incident_, "comments", List(<<>>)),
                                       PyGet(incident_, "work_notes", List(<<>>)))
    IN  IF IsExc(comments_section) THEN comments_section
        ELSE Built([title |-> Str(PyStr(PyGet(incident_, "short_description",
                                                   Str("No description")))),
                    description |-> Str(Description(incident_, comments_section.s)),
                    teamId |-> Str(LINEAR_TEAM_ID),
                    assigneeId |-> Null])

\* The variables of the mutation, or the exception raised before the try block.
BuildVariables(incident_) ==
    LET comments_section ==
            format_comments_for_linear(PyGet(incident_, "comments", List(<<>>)),
                                       PyGet(incident_, "work_notes", List(<<>>)))
    IN  IF IsExc(comments_section) THEN comments_section
        ELSE Built([title |-> Str(PyStr(PyGet(incident_, "short_description",
                                                   Str("No description")))),
                    description |-> Str(Description(incident_, comments_section.s)),
                    teamId |-> Str(LINEAR_TEAM_ID),
                    assigneeId |-> PyGet(incident_, "assignee_id", Null)])

-----------------------------------------------------------------------------
(* create_linear_ticket: reading the response of the ticket API             *)

\* What requests.post returns: a response with a status and a body text.
Http(status_code, body) == [k |-> "http", status_code |-> status_code, body |-> body]

\* response.json(), or the exception requests.post raised.
ResponseData(out) == IF IsExc(out) THEN out ELSE JsonLoads(out.body)

Retry == [k |-> "retry"]

Go == [k |-> "go"]

\* The mutant of the errors check: any error of the API is answered by a retry.
ErrorsCheckAnyError(response_data) ==
    LET has == PyIn("errors", response_data)
        error_message ==
            PyGet(PyFirst(PyItem(response_data, "errors")), "message", Str("Unknown error"))
    IN  IF IsExc(has) THEN has
        ELSE IF ~has.b THEN Go
        ELSE IF IsExc(error_message) THEN error_message
        ELSE Retry

\* if "errors" in response_data: ... if "assigneeId" in error_message: retry
ErrorsCheck(response_data) ==
    LET has == PyIn("errors", response_data)
        error_message ==
            PyGet(PyFirst(PyItem(response_data, "errors")), "message", Str("Unknown error"))
        assignee == PyIn("assigneeId", error_message)
    IN  IF IsExc(has) THEN has
        ELSE IF ~has.b THEN Go
        ELSE IF IsExc(error_message) THEN error_message
        ELSE IF IsExc(assignee) THEN assignee
        ELSE IF assignee.b THEN Retry
        ELSE Go

\* The notifier is to be called with this issue.
Notify(linear_issue) == [k |-> "notify", issue |-> linear_issue]

\* The mutant of the success test: a response without the flag answers as an
\* exception does, with the failure acknowledgement.
SuccessOfNo500(response_data) ==
    LET success ==
            PyGet(PyGet(PyGet(response_data, "data", EmptyDict), "issueCreate", EmptyDict),
                  "success", Null)
        linear_issue == PyItem(PyItem(PyItem(response_data, "data"), "issueCreate"), "issue")
    IN  IF IsExc(success) THEN FailureAck(success)
        ELSE IF Truthy(success)
        THEN IF IsExc(linear_issue) THEN FailureAck(linear_issue) ELSE Notify(linear_issue)
        ELSE FailureAck(Exc("Exception", "Failed to create Linear ticket"))

\* The mutant of the success test: the notifier is called whatever the flag says.
SuccessOfAlwaysNotify(response_data) ==
    LET linear_issue ==
            PyGet(PyGet(PyGet(response_data, "data", EmptyDict), "issueCreate", EmptyDict),
                  "issue", EmptyDict)
    IN  IF IsExc(linear_issue) THEN FailureAck(linear_issue) ELSE Notify(linear_issue)

\* if response_data.get("data", {}).get("issueCreate", {}).get("success"): ...
\* return jsonify({"error": "Failed to create Linear ticket"}), 500
SuccessOf(response_data) ==
    LET success ==
            PyGet(PyGet(PyGet(response_data, "data", EmptyDict), "issueCreate", EmptyDict),
                  "success", Null)
        linear_issue == PyItem(PyItem(PyItem(response_data, "data"), "issueCreate"), "issue")
    IN  IF IsExc(success) THEN FailureAck(success)
        ELSE IF Truthy(success)
        THEN IF IsExc(linear_issue) THEN FailureAck(linear_issue) ELSE Notify(linear_issue)
        ELSE FailedResp

\* What follows the first call: Retry, Notify(issue) or the response returned.
AfterFirstCall(out) ==
    LET response_data == ResponseData(out)
        check == ErrorsCheck(response_data)
    IN  IF IsExc(response_data) THEN FailureAck(response_data)
        ELSE IF IsExc(check) THEN FailureAck(check)
        ELSE IF check = Retry THEN Retry
        ELSE SuccessOf(response_data)

\* What follows the retry: Notify(issue) or the response returned.
AfterRetry(out) ==
    LET response_data == ResponseData(out)
    IN  IF IsExc(response_data) THEN FailureAck(response_data)
        ELSE SuccessOf(response_data)

-----------------------------------------------------------------------------
(* send_slack_notification                                                 *)

\* The message built before the try block, or the exception building it raises.
NotificationPayload(incident_, linear_issue) ==
    LET number == PyGet(incident_, "number", Str("Unknown"))
        url == PyItem(linear_issue, "url")
        issue_number == PyItem(linear_issue, "number")
        e == FirstExc(<<number, url, issue_number>>)
    IN  IF e # Nothing THEN e
        ELSE [k |-> "payload",
              text |-> "<!oncall> A new Linear ticket has been created",
              blocks |-> <<
                "*@oncall A new Linear ticket has been created!*",
                "divider",
                "*ServiceNow Incident:* " \o PyStr(number) \o "\n"
                    \o "*Linear Ticket:* <" \o PyStr(url) \o "|#" \o PyStr(issue_number) \o ">",
                "*Short Description:* "
                    \o PyStr(PyGet(incident_, "short_description", Str("N/A"))) \o "\n"
                    \o "*Assigned To:* "
                    \o PyStr(PyGet(incident_, "assigned_to", Str("Unassigned"))),
                "*Ticket successfully transferred from ServiceNow to Linear*" >>]

-----------------------------------------------------------------------------
(* The inbound requests considered: the payload field of the form.         *)

\* All sequences over S of length at most n.
SeqsUpTo(S, n) == UNION {[1..m -> S] : m \in 0..n}

\* A selected option of a static select: display text and raw value.
Option(text, value) ==
    Dict([text |-> Dict([text |-> Str(text)]), value |-> Str(value)])

Bob == Option("Bob", "U123")

Alice == Option("Alice", "U456")

\* Blocks of the state-values map under which the loop raises nothing.
GoodBlocks ==
    { Dict([note_input |-> Dict([value |-> Str("see runbook")])]),
      Dict([assign_user |-> Dict([type |-> Str("static_select")])]),
      Dict([assign_user |-> Dict([selected_option |-> Null])]),
      Dict([assign_user |-> Dict([selected_option |-> EmptyDict])]),
      Dict([assign_user |-> Dict([selected_option |-> Bob])]),
      Dict([assign_user |-> Dict([selected_option |-> Alice])]) }

\* Blocks whose shape makes the loop raise.
BadBlocks ==
    { Dict([assign_user |-> Dict([selected_option |-> Dict([value |-> Str("U777")])])]),
      Dict([assign_user |-> Dict([selected_option |->
                Dict([text |-> Dict([text |-> Str("Dan")])])])]),
      Null }

\* The state field of a payload.
States ==
    {Absent, Null, EmptyDict, Dict([values |-> Null])}
        \cup {Dict([values |-> DictOfSeq(bs)]) : bs \in SeqsUpTo(GoodBlocks \cup BadBlocks, MaxBlocks)}

GoodEntry ==
    Dict([created_by |-> Str("ann"), created_on |-> Str("2024-01-01"), value |-> Str("rebooted")])

BadEntry == Dict([created_by |-> Str("ann"), value |-> Str("rebooted")])

\* The comments / work_notes field of an incident record.
CommentLists ==
    {Absent, Null, Str("n/a")} \cup {List(es) : es \in SeqsUpTo({GoodEntry, BadEntry}, MaxComments)}

\* Incident records without comments.
BaseIncidents ==
    { EmptyDict,
      Dict([number |-> Str("INC001"), short_description |-> Str("Disk full")]),
      Dict([number |-> Str("INC001"), short_description |-> Str("Disk full"),
            assigned_to |-> Str("Carol"), assignee_id |-> Str("U999")]),
      Dict([number |-> Str("INC002"), short_description |-> Str("VPN down"),
            state |-> Str("New"), priority |-> Str("2"), assignment_group |-> Str("Network"),
            description |-> Str("No tunnel"), sys_id |-> Str("abc123"),
            assignee_id |-> Str("U999")]) }

\* Incident records with comments and work notes.
CommentIncidents ==
    { MkDict(<< <<"number", Str("INC001")>>, <<"short_description", Str("Disk full")>>,
                <<"comments", c>>, <<"work_notes", w>> >>) : c, w \in CommentLists }

\* The value field of a move_to_linear action.
BaseValues ==
    {Absent, JsonText(Invalid), JsonText(List(<<>>)), JsonText(Null), EmptyDict}
        \cup {JsonText(i) : i \in BaseIncidents}

\* A payload of type block_actions with the given actions and state.
BlockActions(actions, state) ==
    JsonText(MkDict(<< <<"type", Str("block_actions")>>, <<"actions", actions>>,
                       <<"state", state>> >>))

MoveToLinearAction(value) ==
    MkDict(<< <<"action_id", Str("move_to_linear")>>, <<"value", value>> >>)

AssignUserAction(selected_option) ==
    MkDict(<< <<"action_id", Str("assign_user")>>, <<"selected_option", selected_option>> >>)

MoveForms ==
    {BlockActions(List(<<MoveToLinearAction(v)>>), s) : v \in BaseValues, s \in States}
        \cup {BlockActions(List(<<MoveToLinearAction(JsonText(i))>>), Absent) :
                i \in CommentIncidents}

AssignForms ==
    {BlockActions(List(<<AssignUserAction(o)>>), s) :
        o \in {Absent, Null, EmptyDict, Alice, Bob, Dict([text |-> Str("Alice")]),
               Dict([value |-> Str("U456")])},
        s \in {Absent, Dict([values |-> DictOfSeq(<<Dict([assign_user |->
                                    Dict([selected_option |-> Bob])])>>)])}}

\* block_actions payloads whose first action is neither of the two handled.
OtherActionForms ==
    {BlockActions(a, Absent) :
        a \in { Absent, Null, List(<<>>), List(<<Str("x")>>), List(<<Null>>),
                List(<<EmptyDict>>),
                List(<<Dict([action_id |-> Null])>>),
                List(<<Dict([action_id |-> Str("open_ticket")])>>),
                List(<<Dict([action_id |-> Str("open_ticket")]),
                       MoveToLinearAction(JsonText(EmptyDict))>>) }}

\* Requests refused before the action is looked at.
RefusedForms ==
    { Null, Str(""), JsonText(Invalid), JsonText(List(<<>>)), JsonText(Null),
      JsonText(Str("block_actions")), JsonText(EmptyDict),
      JsonText(Dict([type |-> Str("view_submission")])),
      JsonText(Dict([type |-> Null])),
      JsonText(Dict([type |-> Str("view_submission"),
                     actions |-> List(<<MoveToLinearAction(JsonText(EmptyDict))>>)])) }

Forms == RefusedForms \cup OtherActionForms \cup AssignForms \cup MoveForms

\* The requests of the concurrent specification.
ConcForms ==
    { BlockActions(List(<<MoveToLinearAction(JsonText(
            Dict([number |-> Str("INC001"), short_description |-> Str("Disk full"),
                  assigned_to |-> Str("Carol"), assignee_id |-> Str("U999")])))>>), Absent),
      BlockActions(List(<<>>), Absent),
      BlockActions(List(<<MoveToLinearAction(JsonText(
            Dict([number |-> Str("INC001"), short_description |-> Str("Disk full")])))>>),
            Dict([values |-> DictOfSeq(<<Dict([assign_user |->
                                    Dict([selected_option |-> Bob])])>>)])),
      BlockActions(List(<<AssignUserAction(Alice)>>), Absent) }

-----------------------------------------------------------------------------
(* The behaviours of the ticket API and of the webhook considered.         *)

GoodIssue ==
    Dict([id |-> Str("iss-1"), url |-> Str("https://linear.app/t/issue/ENG-7"),
          number |-> Str("7"), title |-> Str("Disk full")])

IssueCreate(ic) == Dict([issueCreate |-> ic])

\* The data field of a response of the ticket API.
DataFields ==
    { Absent, Null, EmptyDict, IssueCreate(Null), IssueCreate(EmptyDict),
      IssueCreate(Dict([success |-> Bool(FALSE)])),
      IssueCreate(Dict([success |-> Bool(FALSE), issue |-> GoodIssue])),
      IssueCreate(Dict([success |-> Bool(TRUE), issue |-> GoodIssue])),
      IssueCreate(Dict([success |-> Bool(TRUE), issue |-> Null])),
      IssueCreate(Dict([success |-> Bool(TRUE)])),
      IssueCreate(Dict([success |-> Bool(TRUE), issue |-> Dict([id |-> Str("iss-1")])])) }

ErrorOther == List(<<Dict([message |-> Str("Team not found")])>>)

ErrorAssignee ==
    List(<<Dict([message |-> Str("Argument Validation Error: assigneeId must be a UUID")])>>)

\* The response bodies of the ticket API, parsed.
LinearBodies ==
    {MkDict(<< <<"data", d>> >>) : d \in DataFields}
        \cup {MkDict(<< <<"errors", ErrorOther>>, <<"data", d>> >>) :
                d \in {Absent, Null, IssueCreate(Dict([success |-> Bool(FALSE)])),
                       IssueCreate(Dict([success |-> Bool(TRUE), issue |-> GoodIssue]))}}
        \cup {MkDict(<< <<"errors", ErrorAssignee>>, <<"data", d>> >>) :
                d \in {Absent, Null,
                       IssueCreate(Dict([success |-> Bool(TRUE), issue |-> GoodIssue]))}}
        \cup {MkDict(<< <<"errors", e>> >>) :
                e \in { Null, List(<<>>), List(<<Str("boom")>>), List(<<EmptyDict>>),
                        List(<<Dict([message |-> Null])>>),
                        List(<<Dict([message |-> Str("Team not found")]),
                               Dict([message |-> Str("assigneeId is invalid")])>>) }}
        \cup {List(<<>>), Null}

\* What a call of the ticket API can yield.
LinearOutcomes ==
    {Exc("ConnectionError", "Max retries exceeded with url: /graphql")}
        \cup {Http(200, JsonText(b)) : b \in LinearBodies}
        \cup {Http(502, JsonText(Invalid))}

\* What a call of the webhook can yield.
WebhookOutcomes ==
    { Http(200, Str("ok")), Http(404, Str("no_service")),
      Exc("ConnectionError", "Max retries exceeded with url: /services") }

-----------------------------------------------------------------------------
(* The state machine: one thread of execution per inbound request.         *)

\* Outbound events and the response, as the request's thread produces them.
TicketCall(vs, out) == [ev |-> "ticket", variables |-> vs, out |-> out]

NotifyCall(payload, out) == [ev |-> "notify", payload |-> payload, out |-> out]

Respond(resp) == [ev |-> "respond", resp |-> resp]

\* The state of a thread before it has run a line.
InitWith(fs, live) ==
    /\ form = fs
    /\ pc = [r \in Requests |-> IF r \in live THEN "recv" ELSE "idle"]
    /\ incident = [r \in Requests |-> Nothing]
    /\ variables = [r \in Requests |-> <<>>]
    /\ issue = [r \in Requests |-> Nothing]
    /\ trace = [r \in Requests |-> <<>>]
    /\ response = [r \in Requests |-> Nothing]

\* One inbound request, of any of the forms.
Init == \E f \in Forms : InitWith([r \in Requests |-> IF r = 1 THEN f ELSE Null], {1})

\* Two inbound requests in progress at once.
InitConc == \E fs \in [Requests -> ConcForms] : InitWith(fs, Requests)

\* The thread of r returns resp, after the outbound events evs.
Return(r, evs, resp) ==
    /\ pc' = [pc EXCEPT ![r] = "done"]
    /\ trace' = [trace EXCEPT ![r] = @ \o evs \o <<Respond(resp)>>]
    /\ response' = [response EXCEPT ![r] = resp]

\* handle_slack_interaction, and create_linear_ticket up to its first call.
HandleSlackInteraction(r) ==
    /\ pc[r] = "recv"
    /\ LET d == Dispatch(form[r])
           built == IF d.k = "call" THEN BuildVariables(d.incident) ELSE Nothing
       IN  IF d.k = "call" /\ ~IsExc(built)
           THEN /\ pc' = [pc EXCEPT ![r] = "post"]
                /\ incident' = [incident EXCEPT ![r] = d.incident]
                /\ variables' = [variables EXCEPT ![r] = built.v]
                /\ UNCHANGED <<trace, response>>
           ELSE /\ Return(r, <<>>, CASE d.k = "resp" -> d
                                     [] d.k = "exc" -> OuterExcept(d)
                                     [] OTHER -> OuterExcept(built))
                /\ incident' = [incident EXCEPT ![r] = IF d.k = "call" THEN d.incident ELSE @]
                /\ UNCHANGED variables
    /\ UNCHANGED <<form, issue>>

\* What a call of the ticket API leads to: a retry, the notifier or a response.
Continue(r, ev, after) ==
    IF after = Retry
    THEN /\ pc' = [pc EXCEPT ![r] = "retry"]
         /\ variables' = [variables EXCEPT ![r] = PyPop(@, "assigneeId")]
         /\ trace' = [trace EXCEPT ![r] = Append(@, ev)]
         /\ UNCHANGED <<issue, response>>
    ELSE IF after.k = "notify"
    THEN /\ pc' = [pc EXCEPT ![r] = "notify"]
         /\ issue' = [issue EXCEPT ![r] = after.issue]
         /\ trace' = [trace EXCEPT ![r] = Append(@, ev)]
         /\ UNCHANGED <<variables, response>>
    ELSE /\ Return(r, <<ev>>, after)
         /\ UNCHANGED <<variables, issue>>

\* The first requests.post of create_linear_ticket and the reading of its response.
PostIssue(r) ==
    /\ pc[r] = "post"
    /\ \E out \in LinearOutcomes :
            Continue(r, TicketCall(variables[r], out), AfterFirstCall(out))
    /\ UNCHANGED <<form, incident>>

\* The second requests.post, without assigneeId, and the reading of its response.
RetryIssue(r) ==
    /\ pc[r] = "retry"
    /\ \E out \in LinearOutcomes :
            Continue(r, TicketCall(variables[r], out), AfterRetry(out))
    /\ UNCHANGED <<form, incident>>

\* send_slack_notification, and the return of create_linear_ticket after it.
SendSlackNotification(r) ==
    /\ pc[r] = "notify"
    /\ LET payload == NotificationPayload(incident[r], issue[r])
       IN  IF IsExc(payload)
           THEN Return(r, <<>>, FailureAck(payload))
           ELSE \E out \in WebhookOutcomes :
                    Return(r, <<NotifyCall(payload, out)>>, SuccessAck)
    /\ UNCHANGED <<form, incident, variables, issue>>

Next ==
    \E r \in Requests :
        \/ HandleSlackInteraction(r)
        \/ PostIssue(r)
        \/ RetryIssue(r)
        \/ SendSlackNotification(r)

Spec == Init /\ [][Next]_vars

SpecConc == InitConc /\ [][Next]_vars

-----------------------------------------------------------------------------
(* Vocabulary of the properties: what a request and a response are, read   *)
(* off the inputs and the trace without running the handler.               *)

HasKey(v, key) == v.k = "dict" /\ key \in DOMAIN v.m

\* The value under key, or Absent.
Field(v, key) == IF HasKey(v, key) THEN v.m[key] ELSE Absent

\* The payload a form parses to, or Invalid.
ParsedForm(f) == IF f.k = "jsontext" THEN f.parse ELSE Invalid

IsBlockActionsForm(f) == Field(ParsedForm(f), "type") = Str("block_actions")

Actions(f) == Field(ParsedForm(f), "actions")

FirstAction(f) ==
    LET a == Actions(f)
    IN  IF a.k = "list" /\ Len(a.items) > 0 THEN a.items[1] ELSE Absent

ActionId(f) == Field(FirstAction(f), "action_id")

IsMoveToLinear(f) == IsBlockActionsForm(f) /\ ActionId(f) = Str("move_to_linear")

IsAssignUser(f) == IsBlockActionsForm(f) /\ ActionId(f) = Str("assign_user")

\* The blocks of the state-values map, in document order.
StateBlocks(f) ==
    LET vals == Field(Field(ParsedForm(f), "state"), "values")
    IN  IF vals.k = "dict"
        THEN [i \in 1..Cardinality(DOMAIN vals.m) |-> vals.m[ToString(i)]]
        ELSE <<>>

\* The selected_option under a block's assign_user key, or Absent.
Selection(b) == Field(Field(b, "assign_user"), "selected_option")

\* The block holds a non-empty selected_option.
Selected(b) == Selection(b).k = "dict" /\ DOMAIN Selection(b).m # {}

HasSelection(f) == \E i \in DOMAIN StateBlocks(f) : Selected(StateBlocks(f)[i])

\* The option of the last block that holds one.
LastSelection(f) ==
    LET bs == StateBlocks(f)
        last == CHOOSE i \in DOMAIN bs :
                    Selected(bs[i]) /\ \A j \in DOMAIN bs : Selected(bs[j]) => j <= i
    IN  Selection(bs[last])

\* The incident record in the first action's value, or Invalid.
Record(f) ==
    LET v == Field(FirstAction(f), "value")
    IN  IF v = Absent THEN EmptyDict
        ELSE IF v.k = "jsontext" THEN v.parse
        ELSE Invalid

\* The events of a request's trace, by kind.
TicketCalls(r) == SelectSeq(trace[r], LAMBDA e : e.ev = "ticket")

NotifyCalls(r) == SelectSeq(trace[r], LAMBDA e : e.ev = "notify")

Responses(r) == SelectSeq(trace[r], LAMBDA e : e.ev = "respond")

Last(s) == s[Len(s)]

\* The parsed body of a response of the ticket API, or Invalid.
Body(out) == IF out.k = "http" /\ out.body.k = "jsontext" THEN out.body.parse ELSE Invalid

\* The response carries an errors collection whose first message names assigneeId.
AssigneeRejected(out) ==
    LET e == Field(Body(out), "errors")
    IN  /\ e.k = "list"
        /\ Len(e.items) > 0
        /\ LET m == Field(e.items[1], "message")
           IN  m.k = "str" /\ Contains(m.s, "assigneeId")

\* The response reports issueCreate.success true.
ReportsSuccess(out) ==
    Field(Field(Field(Body(out), "data"), "issueCreate"), "success") = Bool(TRUE)

\* The response returns an issue field beside the flag.
ReturnsIssue(out) == HasKey(Field(Field(Body(out), "data"), "issueCreate"), "issue")

\* The response is an object whose data path can be read and holds no true flag.
NoSuccessFlag(out) ==
    LET d == Field(Body(out), "data")
        ic == Field(d, "issueCreate")
        su == Field(ic, "success")
    IN  /\ Body(out).k = "dict"
        /\ d = Absent \/ d.k = "dict"
        /\ ic = Absent \/ ic.k = "dict"
        /\ su \in {Absent, Null, Bool(FALSE)}

\* The errors collection is absent, or its first entry can be read.
ErrorsReadable(out) ==
    LET e == Field(Body(out), "errors")
    IN  \/ e = Absent
        \/ /\ e.k = "list"
           /\ Len(e.items) > 0
           /\ e.items[1].k = "dict"
           /\ Field(e.items[1], "message") = Absent \/ Field(e.items[1], "message").k = "str"

\* The 200-level failure acknowledgement, carrying an error text.
IsFailureAck(resp) ==
    /\ resp.k = "resp"
    /\ resp.status = 200
    /\ "text" \in DOMAIN resp.body
    /\ resp.body.text = "Error Creating Linear Ticket"
    /\ Contains(resp.body.blocks[1], "Error: ")
    /\ Len(resp.body.blocks[1]) > Len("*Failed to create Linear ticket*\nError: ")

NoOutboundCalls(r) == TicketCalls(r) = <<>> /\ NotifyCalls(r) = <<>>

-----------------------------------------------------------------------------
(* Properties.                                                             *)

\* C1: when the first ticket-creation response carries an errors collection
\* whose first message contains "assigneeId", exactly one retry is made with
\* assigneeId removed and title, description and teamId unchanged, no third
\* call is made, and the response returned is the success acknowledgement if
\* the retry reports issueCreate.success (and returns an issue) and a failure
\* otherwise.
C1_RetryDecidesResponse ==
    \A r \in Requests :
        (Len(TicketCalls(r)) >= 1 /\ AssigneeRejected(TicketCalls(r)[1].out)) =>
            /\ Len(TicketCalls(r)) <= 2
            /\ pc[r] # "retry" => Len(TicketCalls(r)) = 2
            /\ Len(TicketCalls(r)) = 2 =>
                    /\ TicketCalls(r)[2].variables =
                            PyPop(TicketCalls(r)[1].variables, "assigneeId")
                    /\ "assigneeId" \notin DOMAIN TicketCalls(r)[2].variables
            /\ pc[r] = "done" =>
                    IF /\ ReportsSuccess(TicketCalls(r)[2].out)
                       /\ ReturnsIssue(TicketCalls(r)[2].out)
                    THEN response[r] = SuccessAck
                    ELSE response[r] # SuccessAck

\* C2: when the ticket-creation attempt that decides the request (the first
\* call, or the retry) reports issueCreate.success true and returns an issue,
\* exactly one notification call is attempted and the handler returns the
\* 200 "Linear ticket created successfully" acknowledgement, whatever becomes
\* of the notification: a non-200 status, a network exception, or a failure
\* while building the message from the returned issue.
C2_SuccessNotifiesOnce ==
    \A r \in Requests :
        (pc[r] = "done" /\ Len(TicketCalls(r)) >= 1
                /\ ReportsSuccess(Last(TicketCalls(r)).out)
                /\ ReturnsIssue(Last(TicketCalls(r)).out)) =>
            /\ Len(NotifyCalls(r)) = 1
            /\ response[r] = SuccessAck

\* A creation that failed for a reason other than the retryable rejection:
\* the request is over and its last ticket call reported no success.
CreationFailed(r) ==
    /\ pc[r] = "done"
    /\ Len(TicketCalls(r)) >= 1
    /\ ~ReportsSuccess(Last(TicketCalls(r)).out)

\* After a failed creation nothing more goes out.
NothingAfterFailure(r) ==
    /\ NotifyCalls(r) = <<>>
    /\ Len(TicketCalls(r)) <= 2
    /\ ~AssigneeRejected(TicketCalls(r)[1].out) => Len(TicketCalls(r)) = 1

C4_UnhandledActionIs400 ==
    \A r \in Requests :
        (/\ pc[r] = "done"
         /\ IsBlockActionsForm(form[r])
         /\ \/ Actions(form[r]) \in {Absent, List(<<>>)}
            \/ /\ FirstAction(form[r]).k = "dict"
               /\ ActionId(form[r]) \notin {Str("assign_user"), Str("move_to_linear")}) =>
            /\ response[r] = Resp(400, [error |-> "Unhandled action type"])
            /\ NoOutboundCalls(r)


\* C5 as stated: a move_to_linear request whose state-values map holds no
\* block with a non-empty assign_user selected_option sends no assigneeId,
\* whatever the incident record in the action's value holds.
C5_NoSelectionNoAssignee ==
    \A r \in Requests :
        (/\ IsMoveToLinear(form[r])
         /\ ~HasSelection(form[r])
         /\ Len(TicketCalls(r)) >= 1) =>
            LET vs == TicketCalls(r)[1].variables
            IN  "assigneeId" \in DOMAIN vs => vs.assigneeId = Null

\* C5 amended: without a selection the dispatcher injects nothing, and the
\* first request carries the incident record's own assignee_id, null when
\* the record has none.
C5_NoSelectionKeepsRecordAssignee ==
    \A r \in Requests :
        (/\ IsMoveToLinear(form[r])
         /\ ~HasSelection(form[r])
         /\ pc[r] \in {"post", "retry", "notify", "done"}
         /\ incident[r] # Nothing) =>
            /\ incident[r] = Record(form[r])
            /\ Len(TicketCalls(r)) >= 1 =>
                    TicketCalls(r)[1].variables.assigneeId =
                        (IF HasKey(Record(form[r]), "assignee_id")
                         THEN Record(form[r]).m.assignee_id
                         ELSE Null)

\* A request without a selection whose record names an assignee was sent.
C5_Witness ==
    /\ IsMoveToLinear(form[1])
    /\ ~HasSelection(form[1])
    /\ Len(StateBlocks(form[1])) >= 1
    /\ Len(TicketCalls(1)) >= 1
    /\ TicketCalls(1)[1].variables.assigneeId = Str("U999")

\* C6: when the state-values map holds at least one block with an assign_user
\* selected_option, the first ticket-creation request carries that option's
\* raw value as assigneeId, and the description and the notification show
\* its display text as Assigned To, overriding the incident record's own
\* assigned_to and assignee_id; of several such blocks the last one counts.
C6_LastSelectionAssigned ==
    \A r \in Requests :
        (/\ IsMoveToLinear(form[r])
         /\ HasSelection(form[r])
         /\ Len(TicketCalls(r)) >= 1) =>
            LET opt == LastSelection(form[r])
                shown == opt.m.text.m.text.s
                vs == TicketCalls(r)[1].variables
            IN  /\ vs.assigneeId = opt.m.value
                /\ Contains(vs.description.s, "- **Assigned To:** " \o shown \o "\n")
                /\ \A i \in DOMAIN NotifyCalls(r) :
                        Contains(NotifyCalls(r)[i].payload.blocks[4],
                                 "*Assigned To:* " \o shown)

\* Two blocks hold different options, the record names its own assignee,
\* and the ticket and the notification have gone out.
C6_Witness ==
    /\ IsMoveToLinear(form[1])
    /\ Len(StateBlocks(form[1])) = 2
    /\ Selection(StateBlocks(form[1])[1]) = Bob
    /\ Selection(StateBlocks(form[1])[2]) = Alice
    /\ HasKey(Record(form[1]), "assigned_to")
    /\ Len(TicketCalls(1)) >= 1
    /\ Len(NotifyCalls(1)) = 1

\* C7: a request whose payload field is absent or empty, whose payload is
\* invalid JSON or valid JSON that is not an object, or whose type is not
\* block_actions, is answered 400 with an {"error": ...} body and no
\* outbound call.
C7_BadPayloadIs400 ==
    \A r \in Requests :
        (/\ pc[r] = "done"
         /\ \/ form[r] \in {Null, Str("")}
            \/ ParsedForm(form[r]).k # "dict"
            \/ ~IsBlockActionsForm(form[r])) =>
            /\ response[r].k = "resp"
            /\ response[r].status = 400
            /\ DOMAIN response[r].body = {"error"}
            /\ NoOutboundCalls(r)

\* C8: every request ends with exactly one structured response of status
\* 200, 400 or 500, whatever the payload, the ticket API and the webhook do;
\* no exception leaves handle_slack_interaction, those raised in
\* create_linear_ticket before its try block included.
C8_OneStructuredResponse ==
    \A r \in Requests :
        /\ response[r].k \in {"nothing", "resp"}
        /\ pc[r] \in {"recv", "post", "retry", "notify"} =>
                /\ response[r] = Nothing
                /\ Responses(r) = <<>>
        /\ pc[r] = "done" =>
                /\ response[r].k = "resp"
                /\ response[r].status \in {200, 400, 500}
                /\ DOMAIN response[r].body \in {{"error"}, {"text"}, {"text", "blocks"}}
                /\ Len(Responses(r)) = 1
                /\ Last(trace[r]) = Respond(response[r])

\* A request ended by an exception of create_linear_ticket raised before its
\* try block: the record is no object, or a comment lacks a field.
C8_Witness ==
    /\ pc[1] = "done"
    /\ IsMoveToLinear(form[1])
    /\ incident[1] # Nothing
    /\ HasKey(incident[1], "comments")
    /\ TicketCalls(1) = <<>>
    /\ response[1] = Resp(500, [error |-> "Internal server error"])


\* The echo an assign_user action is answered with, or the 500 of the
\* catch-all when the selected option is no object.
AssignUserAnswer(f) ==
    LET so == Field(FirstAction(f), "selected_option")
        text == Field(so, "text")
        shown == Field(text, "text")
    IN  IF so # Absent /\ so.k # "dict" THEN Resp(500, [error |-> "Internal server error"])
        ELSE IF text # Absent /\ text.k # "dict"
        THEN Resp(500, [error |-> "Internal server error"])
        ELSE IF shown = Absent THEN Resp(200, [text |-> "User selected: Unknown"])
        ELSE Resp(200, [text |-> "User selected: " \o shown.s])

\* A comments or work_notes field the formatter gets through.
CommentsOK(c) ==
    \/ c \in {Absent, Null, Str(""), List(<<>>)}
    \/ /\ c.k = "list"
       /\ \A i \in DOMAIN c.items :
            /\ c.items[i].k = "dict"
            /\ {"created_by", "created_on", "value"} \subseteq DOMAIN c.items[i].m

\* A block of the state-values map the loop gets through.
BlockOK(b) ==
    /\ b.k = "dict"
    /\ HasKey(b, "assign_user") =>
            /\ b.m.assign_user.k = "dict"
            /\ \/ Selection(b) \in {Absent, Null, EmptyDict}
               \/ /\ HasKey(Selection(b), "value")
                  /\ HasKey(Field(Selection(b), "text"), "text")

\* A move_to_linear request the handler gets through to the first call:
\* the value parses to an object, the state and its blocks have the
\* expected shape, and every comment and work note is complete.
Processable(f) ==
    LET st == Field(ParsedForm(f), "state")
        vals == Field(st, "values")
    IN  /\ IsMoveToLinear(f)
        /\ Record(f).k = "dict"
        /\ st = Absent \/ st.k = "dict"
        /\ vals = Absent \/ vals.k = "dict"
        /\ \A i \in DOMAIN StateBlocks(f) : BlockOK(StateBlocks(f)[i])
        /\ CommentsOK(Field(Record(f), "comments"))
        /\ CommentsOK(Field(Record(f), "work_notes"))

\* The display text of the option an assign_user action selected.
HasDisplayText(f) ==
    Field(Field(Field(FirstAction(f), "selected_option"), "text"), "text") # Absent

DisplayText(f) == FirstAction(f).m.selected_option.m.text.m.text.s

\* C9 as stated: over one request the ticket-creation calls number 0 when
\* the request is no move_to_linear action and 1 or 2 when it is, 2 only
\* after an assigneeId error on the first; the notification calls number at
\* most 1; an assign_user action produces the echo "User selected: <display
\* text>" and no outbound call.
C9_CallCounts ==
    \A r \in Requests :
        pc[r] = "done" =>
            /\ ~IsMoveToLinear(form[r]) => Len(TicketCalls(r)) = 0
            /\ IsMoveToLinear(form[r]) => Len(TicketCalls(r)) \in {1, 2}
            /\ Len(TicketCalls(r)) = 2 => AssigneeRejected(TicketCalls(r)[1].out)
            /\ Len(NotifyCalls(r)) <= 1
            /\ IsAssignUser(form[r]) =>
                    /\ NoOutboundCalls(r)
                    /\ HasDisplayText(form[r]) =>
                            response[r] =
                                Resp(200, [text |-> "User selected: " \o DisplayText(form[r])])

\* C9 amended: the ticket-creation calls number 0 when the request is no
\* move_to_linear action or is one the handler cannot get through to the
\* call (it is then answered 400 or 500), and otherwise 1, or 2 exactly when
\* the first response carried the assigneeId error; the notification calls
\* number at most 1; an assign_user action makes no outbound call and is
\* answered with the echo, or with 500 when its selected option is no object.
C9_CallCountsAmended ==
    \A r \in Requests :
        /\ Len(TicketCalls(r)) <= 2
        /\ Len(NotifyCalls(r)) <= 1
        /\ ~Processable(form[r]) => NoOutboundCalls(r)
        /\ pc[r] = "done" =>
            /\ Processable(form[r]) =>
                    Len(TicketCalls(r)) =
                        (IF AssigneeRejected(TicketCalls(r)[1].out) THEN 2 ELSE 1)
            /\ ~Processable(form[r]) /\ IsMoveToLinear(form[r]) =>
                    response[r].status \in {400, 500}
            /\ IsAssignUser(form[r]) => response[r] = AssignUserAnswer(form[r])

\* A processable move_to_linear request with a state block made two ticket
\* calls and one notification call.
C9_Witness ==
    /\ pc[1] = "done"
    /\ Processable(form[1])
    /\ Len(StateBlocks(form[1])) >= 1
    /\ Len(TicketCalls(1)) = 2
    /\ Len(NotifyCalls(1)) = 1

\* The place of an event in the order of a request.
Rank(e) == CASE e.ev = "ticket" -> 1 [] e.ev = "notify" -> 2 [] e.ev = "respond" -> 3

\* The events of one request are in order: the ticket call, the retry if
\* any, the notification if any and only right after a call that reported
\* success, and the response last.
Ordered(r) ==
    LET t == trace[r]
    IN  /\ \A i, j \in DOMAIN t : i < j => Rank(t[i]) <= Rank(t[j])
        /\ Len(TicketCalls(r)) <= 2
        /\ Len(NotifyCalls(r)) <= 1
        /\ Len(Responses(r)) <= 1
        /\ \A i \in DOMAIN t :
                t[i].ev = "notify" =>
                    /\ i > 1
                    /\ t[i - 1].ev = "ticket"
                    /\ ReportsSuccess(t[i - 1].out)
        /\ pc[r] = "done" <=> (t # <<>> /\ Last(t).ev = "respond")
        /\ pc[r] = "notify" => (t # <<>> /\ Last(t).ev = "ticket")

\* The state of one request.
StateOf(r) ==
    <<pc[r], form[r], incident[r], variables[r], issue[r], trace[r], response[r]>>

\* A step changes the state of one request only.
OneRequestMoves ==
    \A r, q \in Requests : (StateOf(r)' # StateOf(r) /\ q # r) => StateOf(q)' = StateOf(q)

\* C10: within one request the outbound events are ordered, first
\* ticket-creation call, then the retry if any, then the notification if any,
\* then the response; a notification is attempted only after a response that
\* reported issueCreate.success true and is over before the handler returns;
\* requests share no state, so the order holds under every interleaving.
C10_EventsOrdered == [](\A r \in Requests : Ordered(r)) /\ [][OneRequestMoves]_vars

\* Two requests interleave: one has notified and not yet returned while the
\* other, begun before, is waiting for its retry.
C10_Witness ==
    /\ pc[1] = "retry"
    /\ pc[2] = "done"
    /\ Len(NotifyCalls(2)) = 1
    /\ Len(TicketCalls(2)) = 2

====
